---- MODULE Spec2Model ----
(***************************************************************************)
(* Pakajo extractor: the /extract request handler of src/server.js, the    *)
(* PDF-engine initialization it shares with the process start, and the     *)
(* pure string functions it is built from.                                 *)
(*                                                                         *)
(* Text is a sequence of one-character strings, so that split, slice,      *)
(* includes, toLowerCase and the percent-decoding are computed, not        *)
(* assumed.                                                                *)
(***************************************************************************)
EXTENDS Integers, Sequences, FiniteSets, TLC

(***************************************************************************)
(* Characters and words                                                    *)
(***************************************************************************)
LF == "\n"
CR == "\r"
SP == " "
QT == "\""

LowerAlnum ==
  {"a","b","c","d","e","f","g","h","i","j","k","l","m","n","o","p","q","r","s",
   "t","u","v","w","x","y","z","0","1","2","3","4","5","6","7","8","9"}

Whitespace == {SP, LF, CR, "\t"}

\* String.prototype.toLowerCase on one character (the upper-case letters the
\* inputs use; every other character is its own lower case).
LowerChar(c) ==
  CASE c = "A" -> "a" [] c = "D" -> "d" [] c = "E" -> "e" [] c = "F" -> "f"
    [] c = "I" -> "i" [] c = "J" -> "j" [] c = "P" -> "p" [] c = "T" -> "t"
    [] c = "W" -> "w" [] c = "X" -> "x"
    [] OTHER -> c

ToLowerCase(s) == [i \in 1..Len(s) |-> LowerChar(s[i])]

\* String.prototype.includes
Includes(s, pat) ==
  \E i \in 1..(Len(s) - Len(pat) + 1) : SubSeq(s, i, i + Len(pat) - 1) = pat

\* String.prototype.slice(0, n)
Slice0(s, n) == SubSeq(s, 1, IF Len(s) < n THEN Len(s) ELSE n)

\* index of the last occurrence of character c in s, 0 when there is none
LastIndexOf(s, c) ==
  LET I == {i \in 1..Len(s) : s[i] = c}
  IN  IF I = {} THEN 0 ELSE CHOOSE i \in I : \A j \in I : j <= i

\* index of the first occurrence of a character of set C in s, Len(s)+1 when none
FirstIndexIn(s, C) ==
  LET I == {i \in 1..Len(s) : s[i] \in C}
  IN  IF I = {} THEN Len(s) + 1 ELSE CHOOSE i \in I : \A j \in I : i <= j

\* s.split(c).pop(): what follows the last c, the whole of s when s has no c
SplitPop(s, c) == SubSeq(s, LastIndexOf(s, c) + 1, Len(s))

\* String.prototype.trim
Trim(s) ==
  LET K == {i \in 1..Len(s) : s[i] \notin Whitespace}
  IN  IF K = {} THEN <<>>
      ELSE SubSeq(s, CHOOSE i \in K : \A j \in K : i <= j,
                     CHOOSE i \in K : \A j \in K : j <= i)

\* s.replace(/<class>/g, '') : drop every character of set C
RECURSIVE Strip(_, _)
Strip(s, C) ==
  IF s = <<>> THEN <<>>
  ELSE IF Head(s) \in C THEN Strip(Tail(s), C)
       ELSE <<Head(s)>> \o Strip(Tail(s), C)

\* s.replace(/[^<class>]/g, '') : keep only the characters of set C
RECURSIVE Keep(_, _)
Keep(s, C) ==
  IF s = <<>> THEN <<>>
  ELSE IF Head(s) \in C THEN <<Head(s)>> \o Keep(Tail(s), C)
       ELSE Keep(Tail(s), C)

\* Array.prototype.join
RECURSIVE Join(_, _)
Join(items, sep) ==
  IF items = <<>> THEN <<>>
  ELSE IF Len(items) = 1 THEN items[1]
       ELSE items[1] \o sep \o Join(Tail(items), sep)

\* String.prototype.split(c): the pieces between the occurrences of c
RECURSIVE SplitBy(_, _)
SplitBy(s, c) ==
  LET i == FirstIndexIn(s, {c})
  IN  IF i > Len(s) THEN <<s>>
      ELSE <<SubSeq(s, 1, i - 1)>> \o SplitBy(SubSeq(s, i + 1, Len(s)), c)

(***************************************************************************)
(* new URL(url): the WHATWG parser on the strings the requests carry:       *)
(* absolute http URLs without userinfo or port, and strings with no scheme. *)
(* A result is [ok |-> FALSE] when the constructor throws, and otherwise    *)
(* carries the pathname.                                                    *)
(***************************************************************************)
HostChars == LowerAlnum \cup {".", "-"}

HttpScheme == <<"h","t","t","p">>

Threw == [ok |-> FALSE, v |-> <<>>]

Returned(v) == [ok |-> TRUE, v |-> v]

IsSingleDot(seg) == ToLowerCase(seg) \in {<<".">>, <<"%","2","e">>}

IsDoubleDot(seg) ==
  ToLowerCase(seg) \in {<<".",".">>, <<".","%","2","e">>, <<"%","2","e",".">>,
                        <<"%","2","e","%","2","e">>}

\* the path percent-encode set, on the characters the inputs use
RECURSIVE PathEncode(_)
PathEncode(s) ==
  IF s = <<>> THEN <<>>
  ELSE IF Head(s) = SP THEN <<"%","2","0">> \o PathEncode(Tail(s))
       ELSE <<Head(s)>> \o PathEncode(Tail(s))

\* the path state: dot segments are resolved as the segments are read
RECURSIVE PathSegments(_, _)
PathSegments(segs, out) ==
  IF segs = <<>> THEN out
  ELSE LET b    == Head(segs)
           last == Len(segs) = 1
           pop  == IF out = <<>> THEN out ELSE SubSeq(out, 1, Len(out) - 1)
       IN  IF IsDoubleDot(b)
             THEN PathSegments(Tail(segs), IF last THEN pop \o << <<>> >> ELSE pop)
           ELSE IF IsSingleDot(b)
             THEN PathSegments(Tail(segs), IF last THEN out \o << <<>> >> ELSE out)
           ELSE PathSegments(Tail(segs), out \o <<PathEncode(b)>>)

RECURSIVE SerializePath(_)
SerializePath(segs) ==
  IF segs = <<>> THEN <<>> ELSE <<"/">> \o Head(segs) \o SerializePath(Tail(segs))

Pathname(rawPath) ==
  LET segs == IF rawPath = <<>> THEN <<>>
              ELSE PathSegments(SplitBy(Tail(rawPath), "/"), <<>>)
  IN  IF segs = <<>> THEN <<"/">> ELSE SerializePath(segs)

\* a special scheme's authority starts after any run of slashes
RECURSIVE SkipSlashes(_)
SkipSlashes(s) ==
  IF s # <<>> /\ Head(s) \in {"/", "\\"} THEN SkipSlashes(Tail(s)) ELSE s

\* (mutant) a parser that never throws and takes a string without a scheme
\* for a path, as the legacy url.parse does
ParseURLLenient(u) ==
  LET t    == Trim(u)
      pEnd == FirstIndexIn(t, {"?", "#"})
  IN  Returned(SubSeq(t, 1, pEnd - 1))

ParseURL(u) ==
  LET t      == Trim(u)
      colon  == FirstIndexIn(t, {":"})
      scheme == SubSeq(t, 1, colon - 1)
      rest   == SubSeq(t, colon + 1, Len(t))
      auth   == SkipSlashes(rest)
      hEnd   == FirstIndexIn(auth, {"/", "?", "#"})
      host   == SubSeq(auth, 1, hEnd - 1)
      tail   == SubSeq(auth, hEnd, Len(auth))
      pEnd   == FirstIndexIn(tail, {"?", "#"})
  IN  IF colon > Len(t) \/ ToLowerCase(scheme) # HttpScheme THEN Threw
      ELSE IF host = <<>> \/ \E i \in 1..Len(host) : LowerChar(host[i]) \notin HostChars
        THEN Threw
      ELSE Returned(Pathname(SubSeq(tail, 1, pEnd - 1)))

(***************************************************************************)
(* decodeURIComponent: a "%" must be followed by two hexadecimal digits     *)
(* that encode well-formed UTF-8, and the function throws URIError          *)
(* otherwise.  AsciiOf is the table of the one-byte escapes.                *)
(***************************************************************************)
HexDigits ==
  {"0","1","2","3","4","5","6","7","8","9","a","b","c","d","e","f",
   "A","B","C","D","E","F"}

AsciiHigh == {"0","1","2","3","4","5","6","7"}

AsciiOf(hi, lo) ==
  LET l == LowerChar(lo)
  IN  CASE hi = "2" /\ l = "0" -> SP
        [] hi = "2" /\ l = "e" -> "."
        [] hi = "2" /\ l = "f" -> "/"
        [] hi = "2" /\ l = "5" -> "%"
        [] hi = "0" /\ l = "a" -> LF
        [] hi = "0" /\ l = "d" -> CR
        [] hi = "5" /\ l = "0" -> "P"
        [] hi = "7" /\ l = "0" -> "p"
        [] hi = "4" /\ l = "4" -> "D"
        [] hi = "6" /\ l = "4" -> "d"
        [] hi = "4" /\ l = "6" -> "F"
        [] hi = "6" /\ l = "6" -> "f"
        [] OTHER -> "?"

RECURSIVE DecodeURIComponent(_)
DecodeURIComponent(s) ==
  IF s = <<>> THEN Returned(<<>>)
  ELSE IF Head(s) # "%"
    THEN LET r == DecodeURIComponent(Tail(s))
         IN  IF r.ok THEN Returned(<<Head(s)>> \o r.v) ELSE Threw
  ELSE IF Len(s) < 3 THEN Threw
  ELSE IF s[2] \notin HexDigits \/ s[3] \notin HexDigits THEN Threw
  ELSE IF s[2] \notin AsciiHigh THEN Threw
  ELSE LET r == DecodeURIComponent(SubSeq(s, 4, Len(s)))
       IN  IF r.ok THEN Returned(<<AsciiOf(s[2], s[3])>> \o r.v) ELSE Threw

(***************************************************************************)
(* Filename and extension, as the handler derives them from a pathname      *)
(***************************************************************************)
\* decodeURIComponent(pathname.split('/').pop() || '').trim(), then
\* .replace(/[\r\n]/g, '').trim()
FilenameOf(pathname) ==
  LET d == DecodeURIComponent(SplitPop(pathname, "/"))
  IN  IF d.ok THEN Returned(Trim(Strip(Trim(d.v), {CR, LF}))) ELSE Threw

\* (filename.split('.').pop() || '').toLowerCase().trim(), then
\* .replace(/[^a-z0-9]/g, '')
ExtOf(filename) == Keep(Trim(ToLowerCase(SplitPop(filename, "."))), LowerAlnum)

(***************************************************************************)
(* Type detection after the fetch, and the classification of an upstream    *)
(* error response                                                           *)
(***************************************************************************)
PdfExt  == <<"p","d","f">>
DocxExt == <<"d","o","c","x">>

\* if (!ext) { if (contentType.includes('pdf')) ... else if (...) ... }
InferExt(ext, contentType) ==
  IF ext # <<>> THEN ext
  ELSE IF Includes(contentType, <<"p","d","f">>) THEN PdfExt
  ELSE IF \/ Includes(contentType, <<"o","f","f","i","c","e","d","o","c","u","m","e","n","t">>)
          \/ Includes(contentType, <<"w","o","r","d">>)
          \/ Includes(contentType, <<"m","s","w","o","r","d">>)
          \/ Includes(contentType, <<"a","p","p","l","i","c","a","t","i","o","n","/","v","n","d">>)
    THEN DocxExt
  ELSE ext

\* body.slice(0, 200) / body.toString('utf8', 0, 200): the body of an error
\* response is a string or, for responseType 'arraybuffer', a Buffer; the
\* bodies here are ASCII, one byte a character
PreviewLen == 200

\* (mutant) a shorter preview
UpstreamBodyPreviewShort(body) == Slice0(body, 100)

UpstreamBodyPreview(body) == Slice0(body, PreviewLen)

LineTerminators == {LF, CR}

\* /exp.*(fail|expired)/i.test(s): "exp", then characters none of which ends
\* a line, then "fail" or "expired"
ExpFailRegex(s) ==
  LET l == ToLowerCase(s)
  IN  \E i \in 1..Len(l) :
        /\ i + 2 <= Len(l)
        /\ SubSeq(l, i, i + 2) = <<"e","x","p">>
        /\ \E j \in (i + 3)..Len(l) :
             /\ \/ (j + 3 <= Len(l) /\ SubSeq(l, j, j + 3) = <<"f","a","i","l">>)
                \/ (j + 6 <= Len(l) /\ SubSeq(l, j, j + 6) = <<"e","x","p","i","r","e","d">>)
             /\ \A k \in (i + 3)..(j - 1) : l[k] \notin LineTerminators

\* (mutant) the status test binds to the first pattern only:
\* status === 400 && a || b || c
IsInvalidJwtUngated(upstreamStatus, upstreamBodyPreview) ==
  LET previewLower == ToLowerCase(upstreamBodyPreview)
  IN  \/ (upstreamStatus = 400 /\ Includes(previewLower, <<"i","n","v","a","l","i","d","j","w","t">>))
      \/ Includes(previewLower, <<QT,"e","x","p",QT>>)
      \/ ExpFailRegex(upstreamBodyPreview)

IsInvalidJwt(upstreamStatus, upstreamBodyPreview) ==
  LET previewLower == ToLowerCase(upstreamBodyPreview)
  IN  upstreamStatus = 400 /\
        ( \/ Includes(previewLower, <<"i","n","v","a","l","i","d","j","w","t">>)
          \/ Includes(previewLower, <<QT,"e","x","p",QT>>)
          \/ ExpFailRegex(upstreamBodyPreview) )

(***************************************************************************)
(* The service's state                                                      *)
(***************************************************************************)
\* concurrent /extract requests
NReq == 2

Reqs == 1..NReq

\* initPdfjs runs: run 0 is the one the process starts in the background,
\* run r is the one request r starts on demand
Runs == 0..NReq

VARIABLES
  pdfjsLib,   \* the module-level handle: "null", or the build that was loaded
  init,       \* init[k]: run k of initPdfjs: "none", "pending", "resolved", "rejected"
  timer,      \* timer[r]: the 5 s timer of request r's Promise.race
  pc,         \* pc[r]: where request r's handler is suspended
  req,        \* req[r]: the url query parameter of request r
  loc,        \* loc[r]: the handler's locals (filename, ext, response, text, i)
  up,         \* up[r]: what the outbound fetch of request r came back with
  out,        \* out[r]: the responses written to request r, in order
  calls       \* calls[r]: how many times request r started a fetch, an
              \* initPdfjs run, extractPdf and extractDocx

vars == <<pdfjsLib, init, timer, pc, req, loc, up, out, calls>>

NoParam == [given |-> FALSE, s |-> <<>>]

Param(s) == [given |-> TRUE, s |-> s]

NoData == [fmt |-> "none", pages |-> <<>>, rawText |-> <<>>]

NoLocals ==
  [filename |-> <<>>, ext |-> <<>>, finalUrl |-> <<>>, contentType |-> <<>>,
   data |-> NoData, text |-> <<>>, i |-> 0]

NoUpstream == [kind |-> "none", status |-> 0, body |-> <<>>]

Init ==
  /\ pdfjsLib = "null"
  /\ init = [k \in Runs |-> IF k = 0 THEN "pending" ELSE "none"]
  /\ timer = [r \in Reqs |-> "off"]
  /\ pc = [r \in Reqs |-> "idle"]
  /\ req = [r \in Reqs |-> NoParam]
  /\ loc = [r \in Reqs |-> NoLocals]
  /\ up = [r \in Reqs |-> NoUpstream]
  /\ out = [r \in Reqs |-> <<>>]
  /\ calls = [r \in Reqs |-> [fetch |-> 0, init |-> 0, pdf |-> 0, docx |-> 0]]

(***************************************************************************)
(* Responses                                                                *)
(***************************************************************************)
Response(status, error, fields, l, u, text, message) ==
  [status |-> status, error |-> error, fields |-> fields, text |-> text,
   message |-> message,
   filename |-> l.filename, detectedExtension |-> l.ext,
   contentType |-> l.contentType, finalUrl |-> l.finalUrl,
   upstreamStatus |-> u.status,
   upstreamBodyPreview |-> UpstreamBodyPreview(u.body)]

MissingUrlResponse ==
  Response(400, "Missing URL parameter", {"error"}, NoLocals, NoUpstream, <<>>, "")

InvalidUrlResponse ==
  Response(400, "Invalid URL parameter", {"error", "message"}, NoLocals,
           NoUpstream, <<>>, "Invalid URL")

UnsupportedResponse(l) ==
  Response(400, "Unsupported file type... Use .pdf or .docx",
           {"error", "filename", "detectedExtension", "contentType", "finalUrl"},
           l, NoUpstream, <<>>, "")

NotReadyResponse(message) ==
  Response(503, "PDF handler not ready", {"error", "message"}, NoLocals,
           NoUpstream, <<>>, message)

InvalidJwtResponse(u) ==
  Response(401, "Upstream token invalid or expired",
           {"error", "upstreamStatus", "upstreamContentType",
            "upstreamBodyPreview", "suggestion"},
           NoLocals, u, <<>>, "")

UpstreamFailedResponse(u) ==
  Response(502, "Upstream fetch failed",
           {"error", "upstreamStatus", "upstreamContentType",
            "upstreamBodyPreview", "message"},
           NoLocals, u, <<>>, "Request failed")

ExtractionFailedResponse(message) ==
  Response(500, "Extraction failed", {"error", "message"}, NoLocals, NoUpstream,
           <<>>, message)

TextResponse(text) == Response(200, "", {}, NoLocals, NoUpstream, text, "")

\* (mutant) every failed fetch is taken for an upstream answer, as a test
\* of err.request or err.isAxiosError instead of err.response would
CatchResponseAnyFetchError(u, message) ==
  IF u.kind \in {"httpError", "network"}
    THEN IF IsInvalidJwt(u.status, UpstreamBodyPreview(u.body))
           THEN InvalidJwtResponse(u)
           ELSE UpstreamFailedResponse(u)
  ELSE ExtractionFailedResponse(message)

\* the catch block of the handler: err.response decides between the upstream
\* answers and the 500 fallback
CatchResponse(u, message) ==
  IF u.kind = "httpError"
    THEN IF IsInvalidJwt(u.status, UpstreamBodyPreview(u.body))
           THEN InvalidJwtResponse(u)
           ELSE UpstreamFailedResponse(u)
  ELSE ExtractionFailedResponse(message)

(***************************************************************************)
(* The handler of GET /extract, one action per stretch between two awaits   *)
(***************************************************************************)
\* res.status(..).json(..) / res.send(..), after which the handler returns
Respond(r, response) ==
  /\ out' = [out EXCEPT ![r] = Append(@, response)]
  /\ pc' = [pc EXCEPT ![r] = "done"]

\* (mutant) the check tests for undefined only, as url === undefined would
MissingUrlUndefinedOnly(q) == ~q.given

\* if (!url): the parameter is absent or the empty string
MissingUrl(q) == ~q.given \/ q.s = <<>>

\* the request arrives: the parameter check, new URL(url), the filename and
\* the extension of its path, and the call of axios
Arrive(r, q) ==
  /\ pc[r] = "idle"
  /\ req' = [req EXCEPT ![r] = q]
  /\ IF MissingUrl(q)
       THEN Respond(r, MissingUrlResponse) /\ UNCHANGED <<loc, calls>>
     ELSE LET parsedUrl == ParseURL(q.s)
              filename  == FilenameOf(parsedUrl.v)
          IN  IF ~parsedUrl.ok
                THEN Respond(r, InvalidUrlResponse) /\ UNCHANGED <<loc, calls>>
              ELSE IF ~filename.ok
                THEN /\ Respond(r, CatchResponse(NoUpstream, "URI malformed"))
                     /\ UNCHANGED <<loc, calls>>
              ELSE /\ loc' = [loc EXCEPT ![r].filename = filename.v,
                                         ![r].ext = ExtOf(filename.v)]
                   /\ calls' = [calls EXCEPT ![r].fetch = @ + 1]
                   /\ pc' = [pc EXCEPT ![r] = "fetch"]
                   /\ UNCHANGED out
  /\ UNCHANGED <<pdfjsLib, init, timer, up>>

\* response.request.res.responseUrl || response.config.url || url
FinalUrl(responseUrl, url) ==
  IF responseUrl.given /\ responseUrl.s # <<>> THEN responseUrl.s ELSE url

\* if (!filename && finalUrl) { try { ... } catch (e) { /* ignore */ } }
Rederive(l, finalUrl) ==
  IF l.filename = <<>> /\ finalUrl # <<>>
    THEN LET p == ParseURL(finalUrl)
             f == FilenameOf(p.v)
         IN  IF p.ok /\ f.ok
               THEN [l EXCEPT !.filename = f.v, !.ext = ExtOf(f.v)]
               ELSE l
  ELSE l

\* (mutant) an unknown type is handed to the PDF engine instead of being
\* rejected
DispatchTargetDefaultPdf(ext) ==
  IF ext = DocxExt THEN "docx" ELSE IF ext \in {PdfExt, <<>>} THEN "pdf" ELSE "unsupported"

\* the branch the handler takes on the detected extension
DispatchTarget(ext) ==
  IF ext = PdfExt THEN "pdf" ELSE IF ext = DocxExt THEN "docx" ELSE "unsupported"

\* (mutant) the handler trusts the start-up initialization and never
\* initializes on demand
NeedsInitNever(lib) == FALSE

\* if (!pdfjsLib): the engine has to be initialized on demand
NeedsInit(lib) == lib = "null"

\* extractPdf(response.data) is called: pdfjsLib.getDocument throws a
\* TypeError on a null handle, and is awaited otherwise
CallExtractPdf(r, lib) ==
  /\ calls' = [calls EXCEPT ![r].pdf = @ + 1]
  /\ IF lib = "null"
       THEN Respond(r, CatchResponse(NoUpstream, "Cannot read properties of null"))
       ELSE pc' = [pc EXCEPT ![r] = "getDocument"] /\ UNCHANGED out

\* (mutant) an extension that is still unknown is read off the body, a PDF
\* body giving 'pdf'
FetchOkSniffing(r, responseUrl, contentType, data) ==
  /\ pc[r] = "fetch"
  /\ LET finalUrl == FinalUrl(responseUrl, req[r].s)
         l1 == Rederive(loc[r], finalUrl)
         l2 == [l1 EXCEPT !.finalUrl = finalUrl, !.contentType = contentType,
                          !.data = data,
                          !.ext = IF l1.ext = <<>> /\ data.fmt = "pdf" THEN PdfExt
                                  ELSE InferExt(l1.ext, contentType)]
         target == DispatchTarget(l2.ext)
     IN  /\ loc' = [loc EXCEPT ![r] = l2]
         /\ up' = [up EXCEPT ![r] = [kind |-> "ok", status |-> 200, body |-> <<>>]]
         /\ IF target = "pdf"
              THEN IF NeedsInit(pdfjsLib)
                     THEN /\ init' = [init EXCEPT ![r] = "pending"]
                          /\ timer' = [timer EXCEPT ![r] = "armed"]
                          /\ calls' = [calls EXCEPT ![r].init = @ + 1]
                          /\ pc' = [pc EXCEPT ![r] = "race"]
                          /\ UNCHANGED out
                     ELSE CallExtractPdf(r, pdfjsLib) /\ UNCHANGED <<init, timer>>
            ELSE IF target = "docx"
              THEN /\ calls' = [calls EXCEPT ![r].docx = @ + 1]
                   /\ pc' = [pc EXCEPT ![r] = "extractDocx"]
                   /\ UNCHANGED <<out, init, timer>>
            ELSE Respond(r, UnsupportedResponse(l2)) /\ UNCHANGED <<calls, init, timer>>
  /\ UNCHANGED <<pdfjsLib, req>>

\* the fetch succeeded: final URL, content type, the extension when it is
\* still unknown, and the dispatch
FetchOk(r, responseUrl, contentType, data) ==
  /\ pc[r] = "fetch"
  /\ LET finalUrl == FinalUrl(responseUrl, req[r].s)
         l1 == Rederive(loc[r], finalUrl)
         l2 == [l1 EXCEPT !.finalUrl = finalUrl, !.contentType = contentType,
                          !.data = data,
                          !.ext = InferExt(l1.ext, contentType)]
         target == DispatchTarget(l2.ext)
     IN  /\ loc' = [loc EXCEPT ![r] = l2]
         /\ up' = [up EXCEPT ![r] = [kind |-> "ok", status |-> 200, body |-> <<>>]]
         /\ IF target = "pdf"
              THEN IF NeedsInit(pdfjsLib)
                     THEN /\ init' = [init EXCEPT ![r] = "pending"]
                          /\ timer' = [timer EXCEPT ![r] = "armed"]
                          /\ calls' = [calls EXCEPT ![r].init = @ + 1]
                          /\ pc' = [pc EXCEPT ![r] = "race"]
                          /\ UNCHANGED out
                     ELSE CallExtractPdf(r, pdfjsLib) /\ UNCHANGED <<init, timer>>
            ELSE IF target = "docx"
              THEN /\ calls' = [calls EXCEPT ![r].docx = @ + 1]
                   /\ pc' = [pc EXCEPT ![r] = "extractDocx"]
                   /\ UNCHANGED <<out, init, timer>>
            ELSE Respond(r, UnsupportedResponse(l2)) /\ UNCHANGED <<calls, init, timer>>
  /\ UNCHANGED <<pdfjsLib, req>>

\* axios rejects with err.response: the upstream answered with an error status
FetchHttpError(r, status, body) ==
  /\ pc[r] = "fetch"
  /\ LET u == [kind |-> "httpError", status |-> status, body |-> body]
     IN  up' = [up EXCEPT ![r] = u] /\ Respond(r, CatchResponse(u, "Request failed"))
  /\ UNCHANGED <<pdfjsLib, init, timer, req, loc, calls>>

\* axios rejects without err.response: timeout, DNS, connection, TLS
FetchNetworkError(r) ==
  /\ pc[r] = "fetch"
  /\ LET u == [kind |-> "network", status |-> 0, body |-> <<>>]
     IN  up' = [up EXCEPT ![r] = u] /\ Respond(r, CatchResponse(u, "network error"))
  /\ UNCHANGED <<pdfjsLib, init, timer, req, loc, calls>>

(***************************************************************************)
(* initPdfjs and the bounded wait of a PDF request                          *)
(***************************************************************************)
Builds == {"legacy", "default"}

\* (mutant) the race is not wrapped in its own try: the rejection reaches the
\* handler's outer catch
RaceRejectedToOuterCatch(r, message) == Respond(r, CatchResponse(NoUpstream, message))

\* (mutant) the catch of the race answers 503 but does not return, and the
\* handler goes on to extractPdf
RaceRejectedNoReturn(r, message) ==
  /\ out' = [out EXCEPT ![r] = Append(@, NotReadyResponse(message))]
  /\ pc' = [pc EXCEPT ![r] = "getDocument"]

\* catch (e) of the Promise.race: the wait ended without a loaded engine
RaceRejected(r, message) == Respond(r, NotReadyResponse(message))

\* (mutant) the run returns without having set the handle
InitOkLeavesNull(k, build) ==
  /\ init[k] = "pending"
  /\ init' = [init EXCEPT ![k] = "resolved"]
  /\ pdfjsLib' = pdfjsLib
  /\ IF k \in Reqs /\ pc[k] = "race"
       THEN CallExtractPdf(k, pdfjsLib)
       ELSE UNCHANGED <<pc, out, calls>>
  /\ UNCHANGED <<timer, req, loc, up>>

\* run k loads a build (the legacy import, or the require fallback) and
\* returns; a request still waiting on it goes on to extractPdf
InitOk(k, build) ==
  /\ init[k] = "pending"
  /\ init' = [init EXCEPT ![k] = "resolved"]
  /\ pdfjsLib' = build
  /\ IF k \in Reqs /\ pc[k] = "race"
       THEN CallExtractPdf(k, build)
       ELSE UNCHANGED <<pc, out, calls>>
  /\ UNCHANGED <<timer, req, loc, up>>

\* run k fails on both the import and the require, and throws
InitFail(k) ==
  /\ init[k] = "pending"
  /\ init' = [init EXCEPT ![k] = "rejected"]
  /\ IF k \in Reqs /\ pc[k] = "race"
       THEN RaceRejected(k, "Cannot find module")
       ELSE UNCHANGED <<pc, out>>
  /\ UNCHANGED <<pdfjsLib, timer, req, loc, up, calls>>

\* setTimeout(() => reject(new Error('pdfjs init timeout')), 5000)
TimerFire(r) ==
  /\ timer[r] = "armed"
  /\ timer' = [timer EXCEPT ![r] = "fired"]
  /\ IF pc[r] = "race"
       THEN RaceRejected(r, "pdfjs init timeout")
       ELSE UNCHANGED <<pc, out>>
  /\ UNCHANGED <<pdfjsLib, init, req, loc, up, calls>>

(***************************************************************************)
(* extractPdf and extractDocx                                               *)
(***************************************************************************)
\* strings.join(' ') + '\n'
PageText(items) == Join(items, <<SP>>) \o <<LF>>

\* (mutant) the loop stops one page early: i < doc.numPages
LoopContinuesExclusive(i, numPages) == i < numPages

\* the loop test: i <= doc.numPages
LoopContinues(i, numPages) == i <= numPages

\* the first page the loop asks for
FirstPage == 1

\* top of the loop: the next page is asked for, or the text is returned
LoopOrReturn(r, l) ==
  IF LoopContinues(l.i, Len(l.data.pages))
    THEN pc' = [pc EXCEPT ![r] = "getPage"] /\ UNCHANGED out
    ELSE Respond(r, TextResponse(l.text))

\* await pdfjsLib.getDocument({ data }).promise
GetDocument(r) ==
  /\ pc[r] = "getDocument"
  /\ IF loc[r].data.fmt = "pdf"
       THEN LET l == [loc[r] EXCEPT !.text = <<>>, !.i = FirstPage]
            IN  loc' = [loc EXCEPT ![r] = l] /\ LoopOrReturn(r, l)
       ELSE /\ Respond(r, CatchResponse(NoUpstream, "Invalid PDF structure"))
            /\ UNCHANGED loc
  /\ UNCHANGED <<pdfjsLib, init, timer, req, up, calls>>

\* await doc.getPage(i)
GetPage(r) ==
  /\ pc[r] = "getPage"
  /\ pc' = [pc EXCEPT ![r] = "getTextContent"]
  /\ UNCHANGED <<pdfjsLib, init, timer, req, loc, up, out, calls>>

\* await page.getTextContent(), the page's text appended, i++
GetTextContent(r) ==
  /\ pc[r] = "getTextContent"
  /\ LET items == loc[r].data.pages[loc[r].i]
         l == [loc[r] EXCEPT !.text = @ \o PageText(items), !.i = @ + 1]
     IN  loc' = [loc EXCEPT ![r] = l] /\ LoopOrReturn(r, l)
  /\ UNCHANGED <<pdfjsLib, init, timer, req, up, calls>>

\* await mammoth.extractRawText({ buffer }), result.value returned
ExtractDocx(r) ==
  /\ pc[r] = "extractDocx"
  /\ IF loc[r].data.fmt = "docx"
       THEN Respond(r, TextResponse(loc[r].data.rawText))
       ELSE Respond(r, CatchResponse(NoUpstream, "Corrupted zip"))
  /\ UNCHANGED <<pdfjsLib, init, timer, req, loc, up, calls>>

(***************************************************************************)
(* The next-state relation, over the inputs a specification draws from      *)
(***************************************************************************)
NextOver(R, Queries, ResponseUrls, ContentTypes, Datas, Statuses, Bodies) ==
  \/ \E r \in R, q \in Queries : Arrive(r, q)
  \/ \E r \in R, ru \in ResponseUrls, ct \in ContentTypes, d \in Datas :
       FetchOk(r, ru, ct, d)
  \/ \E r \in R, s \in Statuses, b \in Bodies : FetchHttpError(r, s, b)
  \/ \E r \in R : FetchNetworkError(r)
  \/ \E k \in {0} \cup R, b \in Builds : InitOk(k, b)
  \/ \E k \in {0} \cup R : InitFail(k)
  \/ \E r \in R : TimerFire(r)
  \/ \E r \in R : GetDocument(r)
  \/ \E r \in R : GetPage(r)
  \/ \E r \in R : GetTextContent(r)
  \/ \E r \in R : ExtractDocx(r)

(***************************************************************************)
(* Inputs                                                                   *)
(***************************************************************************)
Origin == <<"h","t","t","p",":","/","/","h">>

Url(path) == Origin \o path

NotAUrl == <<"n","o","t"," ","a"," ","u","r","l">>

CtPdf  == <<"a","p","p","l","i","c","a","t","i","o","n","/","p","d","f">>
CtHtml == <<"t","e","x","t","/","h","t","m","l">>

\* the documents have at most MaxPages pages
MaxPages == 3

RECURSIVE SeqsUpTo(_, _)
SeqsUpTo(S, n) ==
  IF n = 0 THEN {<<>>}
  ELSE LET shorter == SeqsUpTo(S, n - 1)
       IN  shorter \cup {Append(q, x) : q \in {p \in shorter : Len(p) = n - 1}, x \in S}

PdfData(pages) == [fmt |-> "pdf", pages |-> pages, rawText |-> <<>>]

DocxData(rawText) == [fmt |-> "docx", pages |-> <<>>, rawText |-> rawText]

OtherData == [fmt |-> "other", pages |-> <<>>, rawText |-> <<>>]

JwtBody == <<"{",QT,"e","r","r","o","r",QT,":",QT,"I","n","v","a","l","i","d","J","W","T",QT,"}">>

ExpBody == <<"{",QT,"e","x","p",QT,":","1","}">>

ExpiredBody == <<"T","o","k","e","n"," ","E","X","P"," ","c","h","e","c","k"," ","f","a","i","l","e","d">>

NotFoundBody == <<"n","o","t"," ","f","o","u","n","d">>

\* the service under concurrent requests
SomeQueries ==
  {NoParam, Param(<<>>), Param(NotAUrl),
   Param(Url(<<"/","a",".","p","d","f">>)), Param(Url(<<"/","b",".","d","o","c","x">>)), Param(Url(<<"/","c",".","t","x","t">>))}

SomeDatas == {PdfData(<< <<<<"a">>>> >>)}

Next ==
  NextOver(Reqs, SomeQueries, {NoParam}, {CtPdf}, SomeDatas, {400},
           {JwtBody, NotFoundBody})

Spec == Init /\ [][Next]_vars

(***************************************************************************)
(* Properties of the service under concurrent requests (Spec)               *)
(***************************************************************************)
PendingRuns == {k \in Runs : init[k] = "pending"}

\* C1: at most one initPdfjs run is in flight at any time; a PDF request that
\* arrives while a run is pending shares it instead of starting another.
C1_SingleInitInFlight == Cardinality(PendingRuns) <= 1

\* C3: a request whose url parameter is missing or empty is answered with
\* exactly 400 {error: "Missing URL parameter"}, and it starts no fetch, no
\* initPdfjs run and no extraction, whatever the state of the PDF engine.
C3_MissingUrlIs400 ==
  \A r \in Reqs :
    (pc[r] # "idle" /\ (~req[r].given \/ req[r].s = <<>>)) =>
      /\ pc[r] = "done"
      /\ Len(out[r]) = 1
      /\ out[r][1].status = 400
      /\ out[r][1].error = "Missing URL parameter"
      /\ out[r][1].fields = {"error"}
      /\ calls[r] = [fetch |-> 0, init |-> 0, pdf |-> 0, docx |-> 0]
      /\ init[r] = "none" /\ timer[r] = "off"

\* C3 happens with the engine loaded, and with the engine still initializing
\* while another request waits on it
C3_Witness ==
  \E r, s \in Reqs :
    /\ req[r] = Param(<<>>) /\ pc[r] = "done" /\ out[r][1].status = 400
    /\ ~req[s].given /\ pc[s] = "done" /\ out[s][1].status = 400
    /\ pdfjsLib # "null"

\* C9: a PDF request that finds the engine not ready waits with the 5 s timer
\* armed; when its initPdfjs run fails, or the timer fires before the run has
\* completed, the request is answered 503 {error: "PDF handler not ready"},
\* never 500, and extractPdf is not called for it.
C9_NotReadyIs503 ==
  \A r \in Reqs :
    /\ pc[r] = "race" =>
         timer[r] = "armed" /\ init[r] = "pending" /\ out[r] = <<>> /\ calls[r].pdf = 0
    /\ (init[r] = "rejected" \/ (timer[r] = "fired" /\ init[r] = "pending")) =>
         /\ pc[r] = "done"
         /\ Len(out[r]) = 1
         /\ out[r][1].status = 503
         /\ out[r][1].error = "PDF handler not ready"
         /\ calls[r].pdf = 0
    /\ (out[r] # <<>> /\ out[r][1].status = 503) =>
         /\ calls[r].init = 1 /\ calls[r].pdf = 0
         /\ (init[r] = "rejected" \/ timer[r] = "fired")

\* C9 happens both ways: one request timed out with its run still pending,
\* another had its run fail before the timer fired
C9_Witness ==
  \E r, s \in Reqs :
    /\ timer[r] = "fired" /\ init[r] = "pending" /\ out[r][1].status = 503
    /\ timer[s] = "armed" /\ init[s] = "rejected" /\ out[s][1].status = 503

(***************************************************************************)
(* One request at a time, over wide inputs: the URLs and content types      *)
(* (SpecDetect), the upstream error responses (SpecUpstream) and the        *)
(* documents (SpecPdf)                                                      *)
(***************************************************************************)
One == {1}

Stems ==
  {<<>>, <<"d","o","w","n","l","o","a","d">>, <<"r","e","p","o","r","t",".","f","i","n","a","l">>,
   <<"%","z","z">>, <<"a","%","2","F","b">>, <<"x","%","0","A">>}

Suffixes ==
  {<<>>, <<".","p","d","f">>, <<".","P","D","F">>, <<".","P","d","F">>,
   <<".","d","o","c","x">>, <<".","t","x","t">>, <<".","p","-","d","f">>,
   <<".","p","d","f","%","2","0">>, <<".">>, <<".","p","d","f","/">>}

QueryStrings ==
  {<<>>, <<"?","x","=","1">>, <<"?","f","=","a",".","d","o","c","x">>,
   <<"#","s",".","p","d","f">>}

\* http://h/a/b/<stem><suffix><query>, and URLs with no path, the root path
\* and a path that ends in a dot segment
WideUrls ==
  {Url(<<"/","a","/","b","/">> \o s \o x \o q) :
     s \in Stems, x \in Suffixes, q \in QueryStrings}
  \cup {Url(<<>>), Url(<<"/">>), Url(<<"/","d","o","w","n","l","o","a","d">>),
        Url(<<"/","a",".","p","d","f","/",".",".">>)}

\* strings new URL() rejects: no scheme, or no valid host
InvalidUrlStrings ==
  {NotAUrl, <<"h","t","t","p",":","/","/">>, <<"h","/","a",".","p","d","f">>, <<"/","a",".","p","d","f">>, <<"h","t","t","p",":","/","/"," ","h","/","a",".","p","d","f">>}

DetectQueries ==
  {NoParam, Param(<<>>)} \cup {Param(u) : u \in InvalidUrlStrings \cup WideUrls}

DetectResponseUrls ==
  {NoParam, Param(Url(<<"/","r","e","a","l",".","p","d","f">>)), Param(Url(<<"/","d","l","/","%","z","z">>))}

DetectContentTypes ==
  {<<>>, CtPdf, CtHtml, <<"a","p","p","l","i","c","a","t","i","o","n","/","p","d","f",";"," ","c","h","a","r","s","e","t","=","b","i","n","a","r","y">>, <<"a","p","p","l","i","c","a","t","i","o","n","/","m","s","w","o","r","d">>,
   <<"a","p","p","l","i","c","a","t","i","o","n","/","v","n","d",".","m","s","-","e","x","c","e","l">>}

DetectDatas == {PdfData(<< <<<<"a">>>> >>)}

NextDetect ==
  NextOver(One, DetectQueries, DetectResponseUrls, DetectContentTypes, DetectDatas,
           {404}, {NotFoundBody})

SpecDetect == Init /\ [][NextDetect]_vars

\* upstream error bodies: a marker behind a run of filler that puts it at the
\* start of the body, or up to BoundaryReach characters before the end of the
\* preview, so that it lies inside, across and beyond the preview's end
BoundaryReach == 24

Filler(n) == [i \in 1..n |-> "x"]

Markers == {JwtBody, ExpBody, ExpiredBody, <<"e","x","p",LF,"f","a","i","l","e","d">>, NotFoundBody}

Pads == {0} \cup {PreviewLen - k : k \in 0..BoundaryReach}

UpstreamBodies == {Filler(n) \o m : n \in Pads, m \in Markers}

UpstreamStatuses == {400, 401, 403, 404, 500}

NextUpstream ==
  NextOver(One, {Param(Url(<<"/","a",".","p","d","f">>)), Param(Url(<<"/","b",".","d","o","c","x">>))},
           {NoParam}, {CtPdf}, DetectDatas, UpstreamStatuses, UpstreamBodies)

SpecUpstream == Init /\ [][NextUpstream]_vars

\* documents: up to MaxPages pages, each one of these pages (no text run, one
\* run, an empty run, several runs)
PageSamples ==
  {<<>>, <<<<"a">>>>, <<<<"a">>, <<"b"," ","c">>>>, <<<<>>, <<"a">>, <<>>>>}

PdfDatas == {PdfData(pages) : pages \in SeqsUpTo(PageSamples, MaxPages)}

NextPdf ==
  NextOver(One, {Param(Url(<<"/","a",".","p","d","f">>)), Param(Url(<<"/","b",".","d","o","c","x">>))}, {NoParam}, {CtPdf},
           PdfDatas \cup {DocxData(<<"b"," ","c">>), OtherData}, {404}, {NotFoundBody})

SpecPdf == Init /\ [][NextPdf]_vars

(***************************************************************************)
(* Properties of type detection and dispatch (SpecDetect)                   *)
(***************************************************************************)
EndsWith(s, suffix) ==
  Len(s) >= Len(suffix) /\ SubSeq(s, Len(s) - Len(suffix) + 1, Len(s)) = suffix

\* request r carries a URL that new URL() accepts
HasValidUrl(r) ==
  pc[r] # "idle" /\ req[r].given /\ req[r].s # <<>> /\ ParseURL(req[r].s).ok

\* the last segment of the path of request r's URL, as written (not decoded)
LastSegment(r) == SplitPop(ParseURL(req[r].s).v, "/")

\* request r was dispatched to the PDF branch: it started an initPdfjs run
\* or called extractPdf
WentToPdf(r) == calls[r].init + calls[r].pdf >= 1

ReportUrl == Url(<<"/","a","/","b","/","r","e","p","o","r","t",".","f","i","n","a","l",".","d","o","c","x","?","x","=","1">>)

\* C8: the extension comes from the last path segment only (the query string
\* is ignored), is what follows the last '.', lowercased: every path ending
\* in .pdf, .PDF or .PdF yields 'pdf', and /a/b/report.final.docx?x=1 yields
\* filename 'report.final.docx' and extension 'docx'.
C8_ExtensionFromLastSegment ==
  \A r \in Reqs :
    HasValidUrl(r) =>
      /\ EndsWith(ToLowerCase(ParseURL(req[r].s).v), <<".","p","d","f">>) => loc[r].ext = PdfExt
      /\ req[r].s = ReportUrl =>
           loc[r].filename = <<"r","e","p","o","r","t",".","f","i","n","a","l",".","d","o","c","x">> /\ loc[r].ext = DocxExt

\* the same, for the paths whose last segment decodeURIComponent accepts
Lemma_C8_WellFormedEscapes ==
  \A r \in Reqs :
    (HasValidUrl(r) /\ DecodeURIComponent(LastSegment(r)).ok) =>
      /\ EndsWith(ToLowerCase(ParseURL(req[r].s).v), <<".","p","d","f">>) => loc[r].ext = PdfExt
      /\ req[r].s = ReportUrl =>
           loc[r].filename = <<"r","e","p","o","r","t",".","f","i","n","a","l",".","d","o","c","x">> /\ loc[r].ext = DocxExt

\* C2: for every URL whose last path segment contains no '.', the extension
\* derived from the path is empty, so when the fetch succeeds with a
\* content type containing 'application/pdf' the detected extension is 'pdf'
\* and the request goes to PDF extraction, not to the unsupported-type answer.
C2_NoDotFallsBackToContentType ==
  \A r \in Reqs :
    ( /\ HasValidUrl(r)
      /\ \A i \in 1..Len(LastSegment(r)) : LastSegment(r)[i] # "."
      /\ up[r].kind = "ok"
      /\ Includes(loc[r].contentType, CtPdf) ) =>
        /\ loc[r].ext = PdfExt
        /\ WentToPdf(r)
        /\ \A i \in 1..Len(out[r]) : out[r][i].status # 400

\* the part of C2 the code does implement: an empty last segment, no redirect
Lemma_C2_EmptySegment ==
  \A r \in Reqs :
    ( /\ HasValidUrl(r)
      /\ LastSegment(r) = <<>>
      /\ up[r].kind = "ok"
      /\ loc[r].finalUrl = req[r].s
      /\ Includes(loc[r].contentType, CtPdf) ) =>
        loc[r].ext = PdfExt /\ WentToPdf(r)

\* C4: a request whose url parameter is no valid absolute URL is answered
\* with exactly 400 {error: "Invalid URL parameter"}, never 500, and no
\* outbound fetch is issued for it.
C4_InvalidUrlIs400 ==
  \A r \in Reqs :
    (pc[r] # "idle" /\ req[r].given /\ req[r].s \in InvalidUrlStrings) =>
      /\ pc[r] = "done"
      /\ Len(out[r]) = 1
      /\ out[r][1].status = 400
      /\ out[r][1].error = "Invalid URL parameter"
      /\ "error" \in out[r][1].fields
      /\ calls[r] = [fetch |-> 0, init |-> 0, pdf |-> 0, docx |-> 0]
      /\ up[r].kind = "none"

\* C4 happens for the string of the spec's example
C4_Witness ==
  \E r \in Reqs :
    req[r] = Param(NotAUrl) /\ pc[r] = "done" /\ out[r][1].status = 400

\* C10: after a successful fetch, a final extension other than 'pdf' and
\* 'docx' (the empty one included) is answered 400 with filename,
\* detectedExtension, contentType and finalUrl, and neither engine is invoked
\* (no initPdfjs run either); 'pdf' invokes only the PDF engine and 'docx'
\* only the DOCX engine.
C10_DispatchOnExtension ==
  \A r \in Reqs :
    up[r].kind = "ok" =>
      /\ loc[r].ext \notin {PdfExt, DocxExt} =>
           /\ pc[r] = "done"
           /\ Len(out[r]) = 1
           /\ out[r][1].status = 400
           /\ {"error", "filename", "detectedExtension", "contentType", "finalUrl"}
                \subseteq out[r][1].fields
           /\ out[r][1].filename = loc[r].filename
           /\ out[r][1].detectedExtension = loc[r].ext
           /\ out[r][1].contentType = loc[r].contentType
           /\ out[r][1].finalUrl = loc[r].finalUrl
           /\ calls[r].init = 0 /\ calls[r].pdf = 0 /\ calls[r].docx = 0
           /\ init[r] = "none"
      /\ loc[r].ext = PdfExt => (WentToPdf(r) /\ calls[r].docx = 0)
      /\ loc[r].ext = DocxExt =>
           (calls[r].docx = 1 /\ calls[r].pdf = 0 /\ calls[r].init = 0 /\ init[r] = "none")

\* C10 happens with an empty extension and with a non-empty unsupported one
C10_Witness ==
  \E r \in Reqs :
    /\ up[r].kind = "ok" /\ pc[r] = "done" /\ out[r][1].status = 400
    /\ loc[r].ext = <<>> /\ loc[r].contentType = CtHtml /\ pdfjsLib # "null"

(***************************************************************************)
(* Properties of the upstream error classification (SpecUpstream)           *)
(***************************************************************************)
JwtFields ==
  {"error", "suggestion", "upstreamStatus", "upstreamContentType", "upstreamBodyPreview"}

\* the positions at which the body of request r's upstream answer holds
\* {"error":"InvalidJWT"}
JwtPositions(r) ==
  {p \in 1..Len(up[r].body) :
     p + Len(JwtBody) - 1 <= Len(up[r].body)
       /\ SubSeq(up[r].body, p, p + Len(JwtBody) - 1) = JwtBody}

\* where the word InvalidJWT ends in a {"error":"InvalidJWT"} that starts at p
JwtWordEnd(p) == p + Len(JwtBody) - 3

AnsweredInvalidJwt(r) ==
  /\ pc[r] = "done"
  /\ Len(out[r]) = 1
  /\ out[r][1].status = 401
  /\ JwtFields \subseteq out[r][1].fields
  /\ out[r][1].upstreamStatus = 400

C6_Only400Gives401 ==
  \A r \in Reqs :
    /\ (out[r] # <<>> /\ out[r][1].status = 401) =>
         (up[r].kind = "httpError" /\ up[r].status = 400)
    /\ (up[r].kind = "httpError" /\ up[r].status # 400) =>
         /\ pc[r] = "done"
         /\ Len(out[r]) = 1
         /\ out[r][1].status = 502
         /\ out[r][1].error = "Upstream fetch failed"
         /\ out[r][1].upstreamStatus = up[r].status

\* C6 happens for a 404 whose body holds "exp" in quotes, and so would be
\* taken for an expired token at status 400
C6_Witness ==
  \E r \in Reqs :
    /\ up[r].kind = "httpError" /\ up[r].status = 404
    /\ up[r].body = ExpBody
    /\ out[r][1].status = 502

(***************************************************************************)
(* Properties of extractPdf (SpecPdf)                                       *)
(***************************************************************************)
\* the text of pages first..last of a document, page by page
RECURSIVE TextOfPages(_, _, _)
TextOfPages(pages, first, last) ==
  IF first > last THEN <<>>
  ELSE Join(pages[first], <<SP>>) \o <<LF>> \o TextOfPages(pages, first + 1, last)

CountOf(s, c) == Cardinality({i \in 1..Len(s) : s[i] = c})

\* C7: for a PDF of N pages (N >= 0) the extracted text is, in page order
\* 1..N, each page's text runs joined by one space and followed by one
\* newline: N newline-terminated segments, segment i being page i.
C7_PagesInOrder ==
  \A r \in Reqs :
    LET pages == loc[r].data.pages
        N     == Len(pages)
    IN  /\ pc[r] \in {"getPage", "getTextContent"} =>
             /\ loc[r].i \in 1..N
             /\ loc[r].text = TextOfPages(pages, 1, loc[r].i - 1)
        /\ (pc[r] = "done" /\ calls[r].pdf = 1 /\ loc[r].data.fmt = "pdf") =>
             /\ Len(out[r]) = 1
             /\ out[r][1].status = 200
             /\ out[r][1].text = TextOfPages(pages, 1, N)
             /\ CountOf(out[r][1].text, LF) = N
             /\ LET segments == SplitBy(out[r][1].text, LF)
                IN  /\ Len(segments) = N + 1
                    /\ segments[N + 1] = <<>>
                    /\ \A i \in 1..N : segments[i] = Join(pages[i], <<SP>>)

\* C7 happens for a document of three pages, one of them with several runs
\* and one with none
C7_Witness ==
  \E r \in Reqs :
    /\ pc[r] = "done" /\ out[r][1].status = 200
    /\ loc[r].data = PdfData(<< <<<<"a">>, <<"b"," ","c">>>>, <<>>, <<<<"a">>>> >>)
    /\ out[r][1].text = <<"a"," ","b"," ","c",LF,LF,"a",LF>>

\* C7 for the document without pages: the text is empty
Lemma_C7_NoPages ==
  \A r \in Reqs :
    (pc[r] = "done" /\ calls[r].pdf = 1 /\ loc[r].data = PdfData(<<>>)) =>
      out[r][1].status = 200 /\ out[r][1].text = <<>>

(***************************************************************************)
(* Failure answers of the handler                                           *)
(***************************************************************************)
\* C11: a fetch that fails without an HTTP response (err.response absent) is
\* answered 500 {error: "Extraction failed", message} and nothing else; a 401
\* or a 502 is only ever the answer to a fetch that did receive an upstream
\* HTTP response.
C11_NetworkFailureIs500 ==
  \A r \in One :
    /\ up[r].kind = "network" =>
         /\ pc[r] = "done"
         /\ Len(out[r]) = 1
         /\ out[r][1].status = 500
         /\ out[r][1].error = "Extraction failed"
         /\ out[r][1].fields = {"error", "message"}
    /\ (out[r] # <<>> /\ out[r][1].status \in {401, 502}) =>
         /\ up[r].kind = "httpError"
         /\ out[r][1].upstreamStatus = up[r].status

\* the fetch of a PDF URL failed at the network level and was answered 500
C11_Witness ==
  \E r \in One :
    /\ up[r].kind = "network"
    /\ calls[r].fetch = 1
    /\ out[r] # <<>>
    /\ out[r][1].status = 500
    /\ out[r][1].message = "network error"

\* C12: every request is answered exactly once: never twice, and once its
\* steps are finished never zero times; every answer other than 200 is a JSON
\* body with an error field, on every failure path (validation, fetch,
\* unsupported type, engine not ready, extraction failure).
C12_ExactlyOneResponse ==
  \A r \in Reqs :
    /\ Len(out[r]) <= 1
    /\ pc[r] = "done" <=> Len(out[r]) = 1
    /\ \A i \in 1..Len(out[r]) :
         \/ out[r][i].status = 200 /\ out[r][i].fields = {}
         \/ /\ out[r][i].status \in {400, 401, 500, 502, 503}
            /\ "error" \in out[r][i].fields
            /\ out[r][i].error # ""

\* two requests are finished, one refused for a not-ready engine and one
\* whose extraction failed, each with its single answer
C12_Witness ==
  \E r, s \in Reqs :
    /\ pc[r] = "done" /\ out[r][1].status = 503
    /\ pc[s] = "done" /\ out[s][1].status = 500 /\ calls[s].docx = 1

(***************************************************************************)
(* Type detection: what it may raise, and which URL it reads                *)
(***************************************************************************)
\* C13: type detection never raises: for every URL that new URL() accepts,
\* a malformed percent-escape in its last path segment included, the
\* filename and the extension are derived and the request goes on to the
\* fetch; it is not answered 500 before the fetch.
C13_DetectionNeverRaises ==
  \A r \in One :
    HasValidUrl(r) =>
      /\ calls[r].fetch = 1
      /\ ~(up[r].kind = "none" /\ out[r] # <<>> /\ out[r][1].status = 500)

\* what the code does: the fetch is reached exactly when decodeURIComponent
\* accepts the last segment of the path, and a URIError is answered 500
Lemma_C13_RaisesOnMalformedEscape ==
  \A r \in One :
    HasValidUrl(r) =>
      IF DecodeURIComponent(LastSegment(r)).ok
        THEN calls[r].fetch = 1
        ELSE /\ calls[r].fetch = 0
             /\ out[r] = <<CatchResponse(NoUpstream, "URI malformed")>>

\* the extension of the last path segment of the final URL of request r,
\* empty where that URL or its last segment cannot be read
FinalUrlExt(r) ==
  LET p == ParseURL(loc[r].finalUrl)
      f == FilenameOf(p.v)
  IN  IF p.ok /\ f.ok THEN ExtOf(f.v) ELSE <<>>

\* request r was redirected: the final URL is not the URL it asked for
Redirected(r) == up[r].kind = "ok" /\ loc[r].finalUrl # req[r].s

\* C14: the extension used for dispatch is read first from the path of the
\* final (post-redirect) URL: a request redirected to a URL whose path has
\* an extension is dispatched on that extension, so that /doc.txt redirected
\* to /real.pdf is handled as a PDF.
C14_FinalUrlFirst ==
  \A r \in One :
    (Redirected(r) /\ FinalUrlExt(r) # <<>>) =>
      /\ loc[r].ext = FinalUrlExt(r)
      /\ FinalUrlExt(r) = PdfExt => WentToPdf(r)

\* what the code does: the final URL is read only when the path of the
\* request URL gave no filename
Lemma_C14_FinalUrlOnlyWithoutFilename ==
  \A r \in One :
    Redirected(r) =>
      LET f == FilenameOf(ParseURL(req[r].s).v).v
      IN  IF f # <<>>
            THEN loc[r].filename = f /\ loc[r].ext = InferExt(ExtOf(f), loc[r].contentType)
            ELSE loc[r].ext = InferExt(FinalUrlExt(r), loc[r].contentType)

(***************************************************************************)
(* The life of the PDF engine: Uninitialized / Failed, Initializing, Ready  *)
(***************************************************************************)
\* request r is inside extractPdf
InExtractPdf(r) == pc[r] \in {"getDocument", "getPage", "getTextContent"}

\* C15: a failed initialization at startup is not terminal: every PDF
\* request dispatched while the engine is not loaded starts an initPdfjs run
\* of its own and waits for it, and when that run succeeds while the request
\* still waits the engine is loaded and the request goes on to extractPdf
\* without having been answered.
C15_FailedInitIsNotTerminal ==
  [][\A r \in Reqs :
       /\ ( /\ pc[r] = "fetch"
            /\ up'[r].kind = "ok"
            /\ DispatchTarget(loc'[r].ext) = "pdf"
            /\ pdfjsLib = "null" ) =>
              /\ init'[r] = "pending"
              /\ calls'[r].init = 1
              /\ pc'[r] = "race"
       /\ (pc[r] = "race" /\ init[r] = "pending" /\ init'[r] = "resolved") =>
              /\ pdfjsLib' # "null"
              /\ InExtractPdf(r)'
              /\ calls'[r].pdf = 1
              /\ out'[r] = <<>>]_vars

\* Failed -> Initializing -> Ready: the run at startup failed, the run of a
\* later PDF request succeeded, and that request was answered 200
C15_Witness ==
  \E r \in Reqs :
    /\ init[0] = "rejected"
    /\ init[r] = "resolved"
    /\ pdfjsLib # "null"
    /\ out[r] # <<>>
    /\ out[r][1].status = 200

\* C17: extractPdf is entered only with pdfjsLib set, in every interleaving
\* of requests and initPdfjs runs: a request is inside extractPdf, or has
\* called it, only in states where the engine is loaded, and no request is
\* answered with the TypeError of a call on the null handle.
C17_ExtractPdfOnlyWhenLoaded ==
  \A r \in Reqs :
    /\ (InExtractPdf(r) \/ calls[r].pdf >= 1) => pdfjsLib # "null"
    /\ \A i \in 1..Len(out[r]) : out[r][i].message # "Cannot read properties of null"

\* the run at startup failed, the run of request s loaded the engine and s
\* entered extractPdf after its wait; request r found the engine loaded and
\* entered extractPdf without a run of its own
C17_Witness ==
  \E r, s \in Reqs :
    /\ init[0] = "rejected"
    /\ init[s] = "resolved" /\ calls[s].pdf = 1
    /\ calls[r].init = 0 /\ calls[r].pdf = 1

\* C18: Ready is absorbing: once pdfjsLib is set it is never reset to null,
\* and from then on no request starts an initPdfjs run and no request is
\* answered 503.
C18_ReadyIsAbsorbing ==
  [][pdfjsLib # "null" =>
       /\ pdfjsLib' # "null"
       /\ \A r \in Reqs :
            /\ calls'[r].init = calls[r].init
            /\ Len(out'[r]) > Len(out[r]) => out'[r][Len(out'[r])].status # 503]_vars

\* what the code does: the handle stays set and no run is started once it is
\* set, and a 503 after that goes only to a request that was already waiting
\* for a run of its own
Lemma_C18_HandleStaysSet ==
  [][pdfjsLib # "null" =>
       /\ pdfjsLib' # "null"
       /\ \A r \in Reqs :
            /\ calls'[r].init = calls[r].init
            /\ (Len(out'[r]) > Len(out[r]) /\ out'[r][Len(out'[r])].status = 503) =>
                 pc[r] = "race"]_vars

(***************************************************************************)
(* Two requests side by side over the inputs of type detection: URLs that   *)
(* share a path, a redirect, two content types, two bodies (SpecPair)       *)
(***************************************************************************)
Two == {1, 2}

PairQueries ==
  {Param(Url(<<"/","a",".","p","d","f">>)), Param(Url(<<"/","?","x","=","1">>)), Param(Url(<<"/">>))}

PairResponseUrls == {NoParam, Param(Url(<<"/","r","e","a","l",".","p","d","f">>))}

CtMsword == <<"a","p","p","l","i","c","a","t","i","o","n","/","m","s","w","o","r","d">>

PairContentTypes == {CtPdf, CtMsword}

PairDatas == {PdfData(<< <<<<"a">>>> >>), DocxData(<<"b"," ","c">>)}

NextPair ==
  NextOver(Two, PairQueries, PairResponseUrls, PairContentTypes, PairDatas,
           {404}, {NotFoundBody})

SpecPair == Init /\ [][NextPair]_vars

\* requests r and s agree on the path of the request URL, on the path of the
\* final URL and on the content type
SameDetectionInputs(r, s) ==
  /\ up[r].kind = "ok" /\ up[s].kind = "ok"
  /\ loc[r].contentType = loc[s].contentType
  /\ ParseURL(req[r].s).v = ParseURL(req[s].s).v
  /\ ParseURL(loc[r].finalUrl).v = ParseURL(loc[s].finalUrl).v

\* C16: the detected extension is a function of the path of the request URL,
\* the path of the final URL and the content type, and of nothing else: two
\* requests that agree on these three get the same extension, whatever body
\* each received and whatever the state of the PDF engine at its dispatch.
C16_ExtensionIsFunctionOfInputs ==
  SameDetectionInputs(1, 2) => loc[1].ext = loc[2].ext

\* two requests for / answered application/pdf: one received a PDF body
\* with the engine not loaded and started a run, the other received another
\* body with the engine loaded; both were detected as pdf
C16_Witness ==
  \E r, s \in Two :
    /\ SameDetectionInputs(r, s)
    /\ ParseURL(req[r].s).v = <<"/">>
    /\ loc[r].data # loc[s].data
    /\ calls[r].init = 1
    /\ calls[s].init = 0 /\ calls[s].pdf = 1
    /\ loc[r].ext = PdfExt

====
